---------------------------- MODULE Spec2Model ----------------------------
(***************************************************************************)
(* Devsearch_v2: the accounts request handlers (registration, OTP email    *)
(* verification, login, logout, token refresh, password change and reset)  *)
(* and the messaging request handlers (create, view, delete, inbox) over   *)
(* the relational store. A handler that touches the store more than once   *)
(* is one action per store operation; the clock runs between them.         *)
(*                                                                         *)
(* Spec        : registration, OTP verification and password reset, one    *)
(*               request at a time (src/apps/accounts/views.py,            *)
(*               serializers.py).                                          *)
(* SessionSpec : all nine routes of src/apps/accounts/urls.py for one      *)
(*               account, with either password, one request at a time.     *)
(* AccountsSpec: all nine routes for two accounts, one request at a time.  *)
(* RegisterSpec: registration with every short name.                       *)
(* ConcSpec    : all nine routes for one account, served by concurrent     *)
(*               workers whose store operations interleave.                *)
(* MsgSpec     : the messaging handlers, one request at a time             *)
(*               (src/apps/messaging/views.py).                            *)
(* MsgConcSpec : the messaging handlers served by concurrent workers       *)
(*               whose store operations interleave.                        *)
(***************************************************************************)
EXTENDS Integers, Sequences, FiniteSets, Bags, TLC

VARIABLES
    users,      \* User table: email -> [is_email_verified, password]
    otps,       \* Otp table: bag of rows [user, otp, age, purpose]
    issued,     \* refresh tokens the token library has signed: jti -> user
    blacklist,  \* token_blacklist: the jti of blacklisted refresh tokens
    retired,    \* history: <<email, code>> of every Otp row deleted so far
    messages,   \* Message table: set of rows [id, sender, recipient, is_read,
                \* subject, body]
    msg_seq,    \* number of Message rows created so far (ids are never reused)
    inflight,   \* worker -> the request it is serving and its next store operation
    response    \* the last request and the response it got

vars == <<users, otps, issued, blacklist, retired,
          messages, msg_seq, inflight, response>>

accountVars == <<users, otps, issued, blacklist, retired>>
messageVars == <<messages, msg_seq>>

-----------------------------------------------------------------------------
(* Bounds of the model *)

\* refresh tokens signed in one behaviour
MaxTokens == 2
\* Message rows created in one behaviour
MaxMessages == 2
\* characters in a name sent to RegisterSpec
MaxNameLen == 3
\* server workers that serve requests at the same time in ConcSpec and
\* MsgConcSpec
NumWorkers == 2
\* messages on a page of the inbox
PageSize == 1

Emails == {"a@x.com", "b@x.com"}
Codes == {111111, 222222}
Passwords == {"pw1", "pw2"}
Anonymous == "anonymous"
\* refresh-token strings a client can send: signed ones (1..MaxTokens) and 0, a
\* string that is no token
TokenInputs == 0..MaxTokens
\* JSON bodies a client can send to the logout endpoint: with a refresh field, or
\* without one
NoData == [other |-> 0]
LogoutBodies == {[refresh |-> t] : t \in TokenInputs} \cup {NoData}

\* names a client can send at registration, as sequences of Unicode code
\* points: "a" and "a b"
Names == {<<97>>, <<97, 32, 98>>}

\* the characters of a name: the letter a, the space, the tab and the no-break
\* space
NameChars == {97, 32, 9, 160}
\* every name of 1..MaxNameLen characters with a letter in it (what a field of
\* whitespace only does is the field's blank rule, which validate never sees)
RegisterNames ==
    {n \in UNION {[1..k -> NameChars] : k \in 1..MaxNameLen} :
        \E i \in DOMAIN n : n[i] = 97}

\* the validity window of an Otp, in clock ticks
OtpValidTicks == 1

Profiles == {"p1", "p2"}
NoProfile == "none"
\* ids a client can put in a URL: a well-formed id of no profile, and a string
\* that is no UUID
UnknownId == "p9"
BadUuid == "not-a-uuid"
\* the ids of Message rows, in creation order
MessageIds == <<"m1", "m2", "m3", "m4">>


-----------------------------------------------------------------------------
(* The store: helpers over the User and Otp tables *)

\* User.objects.get(email=...) finds a row
UserExists(email) == email \in DOMAIN users

\* Otp.objects.filter(user=user): the user's rows, as a bag
Otp_filter(table, user) ==
    [r \in {x \in DOMAIN table : x.user = user} |-> table[r]]

\* the delete left out: the table keeps the user's rows
Otp_filter_delete_skipped(table, user) == table

\* Otp.objects.filter(user=user).delete(): the table without the user's rows
Otp_filter_delete(table, user) ==
    [r \in {x \in DOMAIN table : x.user # user} |-> table[r]]

\* the lookup without its otp filter: Otp.objects.get(user=user)
Otp_get_any_code(user, otp) ==
    [r \in {x \in DOMAIN otps : x.user = user} |-> otps[r]]

\* the lookup without its user filter: Otp.objects.get(otp=otp)
Otp_get_any_user(user, otp) ==
    [r \in {x \in DOMAIN otps : x.otp = otp} |-> otps[r]]

\* Otp.objects.get(user=user, otp=otp): the rows the lookup matches, as a bag
Otp_get(user, otp) ==
    [r \in {x \in DOMAIN otps : x.user = user /\ x.otp = otp} |-> otps[r]]

\* Otp.is_valid: the row's validity window has not elapsed at check time.
\* A row carries age = (the clock) - created_at, counted up to the window: the
\* only use the program makes of either timestamp is this comparison.
is_valid(row) == row.age < OtpValidTicks

\* Otp.objects.create(user=user, otp=code), called by SendEmail.send_otp and
\* SendEmail.send_password_reset_otp: one more row, created_at = the clock.
\* purpose records which of the two calls made the row; no handler reads it.
Otp_create(table, user, code, purpose) ==
    table (+) SetToBag({[user |-> user, otp |-> code,
                         age |-> 0, purpose |-> purpose]})

\* the <<email, code>> pairs of the rows a request removed from the table
Deleted(before, after) ==
    {<<r.user, r.otp>> : r \in {x \in DOMAIN before : x \notin DOMAIN after}}

\* request.user.is_authenticated: the caller presents an access token, which
\* only a login (or a refresh of its token) hands out
is_authenticated(caller) ==
    /\ caller \in DOMAIN users
    /\ \E t \in 1..Len(issued) : issued[t] = caller

\* RefreshToken(token): the token library accepts a string it has signed whose
\* jti is not blacklisted, and raises TokenError for anything else
RefreshToken_ok(token) ==
    /\ token \in 1..Len(issued)
    /\ token \notin blacklist

\* the request/response record of the accounts handlers
Resp(op, caller, email, arg, status, detail) ==
    [op |-> op, caller |-> caller, email |-> email, arg |-> arg,
     status |-> status, detail |-> detail,
     next_action |-> "", body_email |-> "", mail |-> "",
     access |-> FALSE, refresh |-> 0]

-----------------------------------------------------------------------------
(* src/apps/accounts/serializers.py *)

\* the characters str.split() separates on, the 29 code points of str.isspace:
\* the tab, the line feed, the vertical tab, the form feed, the carriage
\* return, the separators \x1c..\x1f, the space, the next line, the no-break
\* space, the ogham space mark, the spaces U+2000..U+200A, the line and the
\* paragraph separator, the narrow no-break space, the medium mathematical
\* space and the ideographic space
Whitespace ==
    (9..13) \cup (28..32) \cup {133, 160, 5760} \cup (8192..8202)
        \cup {8232, 8233, 8239, 8287, 12288}

\* len(name.split()): the number of whitespace-separated words of name
RECURSIVE split_len(_)
split_len(name) ==
    IF name = <<>> THEN 0
    ELSE IF Head(name) \in Whitespace THEN split_len(Tail(name))
    ELSE IF Len(name) > 1 /\ name[2] \notin Whitespace THEN split_len(Tail(name))
    ELSE 1 + split_len(Tail(name))

\* RegisterSerializer.validate without its last_name check
RegisterSerializer_validate_first_only(first_name, last_name) ==
    IF split_len(first_name) > 1 THEN "first_name" ELSE ""

\* RegisterSerializer.validate: "" when attrs pass, else the field in error
RegisterSerializer_validate(first_name, last_name) ==
    IF split_len(first_name) > 1 THEN "first_name"
    ELSE IF split_len(last_name) > 1 THEN "last_name"
    ELSE ""

\* SendOtpSerializer.validate_email
SendOtpSerializer_validate_email(email) ==
    IF ~UserExists(email) THEN "User with this email does not exist." ELSE ""

\* RequestPasswordResetOtpSerializer.validate_email: the request fails if the
\* user is unknown
RequestPasswordResetOtpSerializer_validate_email(email) ==
    IF ~UserExists(email) THEN "User with this email does not exist." ELSE ""

\* PasswordChangeSerializer.validate: the request fails if the current password
\* does not match
PasswordChangeSerializer_validate(caller, current_password) ==
    IF users[caller].password # current_password THEN "current_password" ELSE ""

\* PasswordChangeSerializer.save: the User table with the caller's new password
PasswordChangeSerializer_save(caller, new_password) ==
    [users EXCEPT ![caller].password = new_password]

\* VerifyOtpSerializer.validate, user = User.objects.get(email=email): "" when
\* the user is found, else the error raised
VerifyOtpSerializer_validate_user(email) ==
    IF ~UserExists(email) THEN "User with this email does not exist." ELSE ""

\* the second half of VerifyOtpSerializer.validate without its
\* "if not otp_record.is_valid" check
VerifyOtpSerializer_validate_otp_no_expiry(user, otp) ==
    IF BagCardinality(Otp_get(user, otp)) = 0 THEN "Invalid OTP provided."
    ELSE IF BagCardinality(Otp_get(user, otp)) > 1 THEN "MultipleObjectsReturned"
    ELSE ""

\* VerifyOtpSerializer.validate, otp_record = Otp.objects.get(user=user, otp=otp)
\* and "if not otp_record.is_valid": "" when attrs pass, else the error raised
VerifyOtpSerializer_validate_otp(user, otp) ==
    IF BagCardinality(Otp_get(user, otp)) = 0 THEN "Invalid OTP provided."
    ELSE IF BagCardinality(Otp_get(user, otp)) > 1 THEN "MultipleObjectsReturned"
    ELSE IF \E r \in DOMAIN Otp_get(user, otp) : ~is_valid(r) THEN "OTP has expired."
    ELSE ""

\* ResetPasswordWithOtpSerializer.validate: the user and the OTP are validated
\* as VerifyOtpSerializer validates them
ResetPasswordWithOtpSerializer_validate_user(email) ==
    VerifyOtpSerializer_validate_user(email)
ResetPasswordWithOtpSerializer_validate_otp(user, otp) ==
    VerifyOtpSerializer_validate_otp(user, otp)

\* ResetPasswordWithOtpSerializer.save: the User table with the user's new
\* password
ResetPasswordWithOtpSerializer_save(email, new_password) ==
    [users EXCEPT ![email].password = new_password]

-----------------------------------------------------------------------------
(* src/apps/accounts/views.py                                               *)
(*                                                                          *)
(* The views open no transaction and take no lock: a view is one action     *)
(* per store operation, taken by the worker that serves the request, so     *)
(* that between two store operations of one request another worker may run  *)
(* and the clock may advance. RefreshTokensView reads the store once.       *)

\* the server's workers, and a worker that serves no request
Workers == 1..NumWorkers
Idle == [op |-> "", caller |-> Anonymous, email |-> "", otp |-> 0, password |-> "",
         first_name |-> <<>>, last_name |-> <<>>, data |-> NoData, pc |-> "idle",
         row |-> [is_email_verified |-> FALSE, password |-> ""]]
NoRequests == [w \in Workers |-> Idle]
AllIdle == inflight = NoRequests

\* no response: the request taken last is still being served
NoResponse == Resp("", Anonymous, "", 0, 0, "")

\* request.data, and request.user, of the request a worker serves
Request(op, caller, email, otp, password, first_name, last_name) ==
    [Idle EXCEPT !.op = op, !.caller = caller, !.email = email, !.otp = otp,
                 !.password = password,
                 !.first_name = first_name, !.last_name = last_name]

\* the response record of a request, before the handler fills it
Req(r) ==
    IF r.op = "Register"
    THEN Resp(r.op, r.caller, r.email, r.password, 0, "")
             @@ [first_name |-> r.first_name, last_name |-> r.last_name]
    ELSE IF r.op \in {"Login", "ChangePassword"}
    THEN Resp(r.op, r.caller, r.email, r.password, 0, "")
    ELSE IF r.op = "Logout"
    THEN Resp(r.op, r.caller, r.email, r.data, 0, "")
    ELSE Resp(r.op, r.caller, r.email, r.otp, 0, "")

\* the worker goes on serving the request it has just validated
Takes(w, r, pc) ==
    /\ inflight' = [inflight EXCEPT ![w] = [r EXCEPT !.pc = pc]]
    /\ response' = NoResponse

\* the worker has done one store operation and goes on to the next
Proceeds(w, pc) ==
    /\ inflight' = [inflight EXCEPT ![w].pc = pc]
    /\ UNCHANGED response

\* return Response(...): the worker is free again
Returns(w, resp) ==
    /\ inflight' = [inflight EXCEPT ![w] = Idle]
    /\ response' = resp

\* RegisterView.post: serializer.is_valid(raise_exception=True)
Register_is_valid(w, email, first_name, last_name, password) ==
    LET r == Request("Register", Anonymous, email, 0, password,
                     first_name, last_name)
    IN
    /\ inflight[w].pc = "idle"
    /\ IF UserExists(email)
       THEN \* the unique email field rejects a second account
            Returns(w, [Req(r) EXCEPT !.status = 400, !.detail = "email"])
       ELSE IF RegisterSerializer_validate(first_name, last_name) # ""
       THEN Returns(w, [Req(r) EXCEPT !.status = 400,
                          !.detail = RegisterSerializer_validate(first_name, last_name)])
       ELSE Takes(w, r, "save")
    /\ UNCHANGED <<accountVars, messageVars>>

\* RegisterView.post: serializer.save(), User.objects.create_user; the email
\* column is unique, so the INSERT of an email registered since is_valid fails
Register_save(w) ==
    LET r == inflight[w] IN
    /\ r.op = "Register"
    /\ r.pc = "save"
    /\ IF UserExists(r.email)
       THEN /\ Returns(w, [Req(r) EXCEPT !.status = 500, !.detail = "IntegrityError"])
            /\ UNCHANGED users
       ELSE /\ users' = [e \in DOMAIN users \cup {r.email} |->
                           IF e = r.email
                           THEN [is_email_verified |-> FALSE, password |-> r.password]
                           ELSE users[e]]
            /\ Proceeds(w, "send")
    /\ UNCHANGED <<otps, issued, blacklist, retired, messageVars>>

\* RegisterView.post: SendEmail.send_otp(request, user), which draws the code,
\* then the 201 response
Register_send_otp(w, code) ==
    LET r == inflight[w] IN
    /\ r.op = "Register"
    /\ r.pc = "send"
    /\ otps' = Otp_create(otps, r.email, code, "verify")
    /\ Returns(w, [Req(r) EXCEPT !.status = 201, !.mail = "otp",
                     !.detail = "OTP sent for email verification.",
                     !.body_email = r.email])
    /\ UNCHANGED <<users, issued, blacklist, retired, messageVars>>

\* LoginView.post: "if not user.is_email_verified" sends the client to send-otp
LoginView_blocked_always(email) == FALSE
LoginView_blocked(email) == ~users[email].is_email_verified

\* the requests that are about to have a refresh token signed
TokenMakers ==
    {v \in Workers :
        \/ inflight[v].op = "Login" /\ inflight[v].pc = "authenticate"
        \/ /\ inflight[v].op = "Logout" /\ inflight[v].pc = "blacklist"
           /\ "refresh" \notin DOMAIN inflight[v].data}

\* LoginView.post: user = User.objects.get(email=...) and the check of the flag
\* of the row just read
LoginView_post(w, email, password) ==
    LET r == Request("Login", Anonymous, email, 0, password, <<>>, <<>>) IN
    /\ inflight[w].pc = "idle"
    /\ IF ~UserExists(email)
       THEN Returns(w, [Req(r) EXCEPT !.status = 404,
                          !.detail = "User does not exist."])
       ELSE IF LoginView_blocked(email)
       THEN Returns(w, [Req(r) EXCEPT !.status = 401,
                          !.detail = "Email not verified.",
                          !.next_action = "send_otp",
                          !.body_email = email])
       ELSE /\ \/ Len(issued) + Cardinality(TokenMakers) < MaxTokens
               \/ users[email].password # password
            /\ Takes(w, r, "authenticate")
    /\ UNCHANGED <<accountVars, messageVars>>

\* LoginView.post: super().post(request), which reads the user again to
\* authenticate the credentials and signs a refresh and an access token
LoginView_authenticate(w) ==
    LET r == inflight[w] IN
    /\ r.op = "Login"
    /\ r.pc = "authenticate"
    /\ IF ~UserExists(r.email) \/ users[r.email].password # r.password
       THEN /\ Returns(w, [Req(r) EXCEPT !.status = 401,
                             !.detail = "No active account found."])
            /\ UNCHANGED issued
       ELSE /\ Len(issued) < MaxTokens
            /\ issued' = Append(issued, r.email)
            /\ Returns(w, [Req(r) EXCEPT !.status = 200, !.access = TRUE,
                             !.refresh = Len(issued) + 1])
    /\ UNCHANGED <<users, otps, blacklist, retired, messageVars>>

\* the two views that issue an OTP to an existing account
IssueOps == {"SendOtp", "RequestPasswordResetOtp"}

\* SendOtpView.post, PasswordResetRequestView.post: the permission check and
\* serializer.is_valid(raise_exception=True)
IssueOtp_is_valid(w, op, caller, email) ==
    LET r == Request(op, caller, email, 0, "", <<>>, <<>>)
        err == IF op = "SendOtp"
               THEN SendOtpSerializer_validate_email(email)
               ELSE RequestPasswordResetOtpSerializer_validate_email(email)
    IN
    /\ inflight[w].pc = "idle"
    /\ op \in IssueOps
    /\ IF op = "RequestPasswordResetOtp" /\ is_authenticated(caller)
       THEN \* permission_classes = (IsUnauthenticated,)
            Returns(w, [Req(r) EXCEPT !.status = 403, !.detail = "IsUnauthenticated"])
       ELSE IF err # ""
       THEN Returns(w, [Req(r) EXCEPT !.status = 400, !.detail = err])
       ELSE Takes(w, r, "get")
    /\ UNCHANGED <<accountVars, messageVars>>

\* User.objects.get(email=email): SendOtpView.post answers User.DoesNotExist
\* with 404, PasswordResetRequestView.post does not catch it
IssueOtp_get(w) ==
    LET r == inflight[w] IN
    /\ r.op \in IssueOps
    /\ r.pc = "get"
    /\ IF UserExists(r.email)
       THEN Proceeds(w, "delete")
       ELSE IF r.op = "SendOtp"
       THEN Returns(w, [Req(r) EXCEPT !.status = 404,
                          !.detail = "No account is associated with this email."])
       ELSE Returns(w, [Req(r) EXCEPT !.status = 500, !.detail = "DoesNotExist"])
    /\ UNCHANGED <<accountVars, messageVars>>

\* Otp.objects.filter(user=user).delete()
IssueOtp_delete(w) ==
    LET r == inflight[w] IN
    /\ r.op \in IssueOps
    /\ r.pc = "delete"
    /\ otps' = Otp_filter_delete(otps, r.email)
    /\ retired' = retired \cup Deleted(otps, otps')
    /\ Proceeds(w, "create")
    /\ UNCHANGED <<users, issued, blacklist, messageVars>>

\* SendEmail.send_otp(request, user) / SendEmail.send_password_reset_otp(request,
\* user), which draws the code, then the 200 response
IssueOtp_create(w, code) ==
    LET r == inflight[w] IN
    /\ r.op \in IssueOps
    /\ r.pc = "create"
    /\ otps' = Otp_create(otps, r.email, code,
                          IF r.op = "SendOtp" THEN "verify" ELSE "reset")
    /\ Returns(w, [Req(r) EXCEPT !.status = 200,
                     !.mail = IF r.op = "SendOtp" THEN "otp" ELSE "reset_otp",
                     !.detail = "OTP sent successfully."])
    /\ UNCHANGED <<users, issued, blacklist, retired, messageVars>>

\* VerifyOtpView.post: serializer.is_valid(raise_exception=True), the first
\* read of VerifyOtpSerializer.validate: the user
VerifyOtp_is_valid(w, email, otp) ==
    LET r == Request("VerifyOtp", Anonymous, email, otp, "", <<>>, <<>>)
        err == VerifyOtpSerializer_validate_user(email)
    IN
    /\ inflight[w].pc = "idle"
    /\ IF err # ""
       THEN Returns(w, [Req(r) EXCEPT !.status = 400, !.detail = err])
       ELSE Takes(w, r, "otp")
    /\ UNCHANGED <<accountVars, messageVars>>

\* VerifyOtpView.post: serializer.is_valid(raise_exception=True), the second
\* read of VerifyOtpSerializer.validate: the user's OTP with the code, and the
\* check of its validity window
VerifyOtp_validate(w) ==
    LET r == inflight[w]
        err == VerifyOtpSerializer_validate_otp(r.email, r.otp)
    IN
    /\ r.op = "VerifyOtp"
    /\ r.pc = "otp"
    /\ IF err = "MultipleObjectsReturned"
       THEN Returns(w, [Req(r) EXCEPT !.status = 500, !.detail = err])
       ELSE IF err # ""
       THEN Returns(w, [Req(r) EXCEPT !.status = 400, !.detail = err,
                          !.next_action = IF err = "OTP has expired."
                                          THEN "request_new_otp" ELSE ""])
       ELSE Proceeds(w, "get")
    /\ UNCHANGED <<accountVars, messageVars>>

\* VerifyOtpView.post: "if user.is_email_verified"
VerifyOtpView_already_verified_never(email) == FALSE
VerifyOtpView_already_verified(email) == users[email].is_email_verified

\* VerifyOtpView.post: user = User.objects.get(email=email), and the branch on
\* the row just read
VerifyOtp_get(w) ==
    LET r == inflight[w] IN
    /\ r.op = "VerifyOtp"
    /\ r.pc = "get"
    /\ inflight' = [inflight EXCEPT
                      ![w].row = users[r.email],
                      ![w].pc = IF VerifyOtpView_already_verified(r.email)
                                THEN "clear" ELSE "save"]
    /\ UNCHANGED <<accountVars, messageVars, response>>

\* VerifyOtpView.post, already verified: Otp.objects.filter(user=user).delete()
\* and the response
VerifyOtp_clear(w) ==
    LET r == inflight[w] IN
    /\ r.op = "VerifyOtp"
    /\ r.pc = "clear"
    /\ otps' = Otp_filter_delete(otps, r.email)
    /\ retired' = retired \cup Deleted(otps, otps')
    /\ Returns(w, [Req(r) EXCEPT !.status = 200,
                     !.detail = "Email address already verified!"])
    /\ UNCHANGED <<users, issued, blacklist, messageVars>>

\* VerifyOtpView.post: user.is_email_verified = True; user.save() writes the
\* row the worker read
VerifyOtp_save(w) ==
    LET r == inflight[w] IN
    /\ r.op = "VerifyOtp"
    /\ r.pc = "save"
    /\ users' = [users EXCEPT ![r.email] = [r.row EXCEPT !.is_email_verified = TRUE]]
    /\ Proceeds(w, "delete")
    /\ UNCHANGED <<otps, issued, blacklist, retired, messageVars>>

\* VerifyOtpView.post: Otp.objects.filter(user=user).delete(),
\* SendEmail.welcome(request, user) and the 200 response
VerifyOtp_delete(w) ==
    LET r == inflight[w] IN
    /\ r.op = "VerifyOtp"
    /\ r.pc = "delete"
    /\ otps' = Otp_filter_delete(otps, r.email)
    /\ retired' = retired \cup Deleted(otps, otps')
    /\ Returns(w, [Req(r) EXCEPT !.status = 200, !.mail = "welcome",
                     !.detail = "Email verified successfully."])
    /\ UNCHANGED <<users, issued, blacklist, messageVars>>

\* LogoutView.post: the permission check, refresh_token =
\* request.data.get("refresh") and token = RefreshToken(refresh_token), which
\* reads the blacklist; RefreshToken(None) builds a new token, with a new jti,
\* instead of decoding one
LogoutView_post(w, caller, data) ==
    LET r == [Request("Logout", caller, "", 0, "", <<>>, <<>>) EXCEPT !.data = data]
        \* request.data.get("refresh")
        has_refresh == "refresh" \in DOMAIN data
    IN
    /\ inflight[w].pc = "idle"
    /\ IF ~is_authenticated(caller)
       THEN Returns(w, [Req(r) EXCEPT !.status = 401,
                          !.detail = "Authentication credentials were not provided."])
       ELSE IF ~has_refresh
       THEN /\ Len(issued) + Cardinality(TokenMakers) < MaxTokens
            /\ Takes(w, r, "blacklist")
       ELSE IF ~RefreshToken_ok(data.refresh)
       THEN Returns(w, [Req(r) EXCEPT !.status = 400, !.detail = "TokenError"])
       ELSE Takes(w, r, "blacklist")
    /\ UNCHANGED <<accountVars, messageVars>>

\* LogoutView.post: token.blacklist(), which stores the token it was given,
\* or the new one, as blacklisted (a token that is blacklisted already stays
\* so), and the 205 response
LogoutView_blacklist(w) ==
    LET r == inflight[w] IN
    /\ r.op = "Logout"
    /\ r.pc = "blacklist"
    /\ IF "refresh" \in DOMAIN r.data
       THEN /\ blacklist' = blacklist \cup {r.data.refresh}
            /\ UNCHANGED issued
       ELSE /\ Len(issued) < MaxTokens
            /\ issued' = Append(issued, Anonymous)
            /\ blacklist' = blacklist \cup {Len(issued) + 1}
    /\ Returns(w, [Req(r) EXCEPT !.status = 205, !.detail = "Logout successful."])
    /\ UNCHANGED <<users, otps, retired, messageVars>>

\* RefreshTokensView.post: super().post(request), which reads the blacklist
RefreshTokensView_post(w, refresh_token) ==
    LET r == Request("RefreshToken", Anonymous, "", refresh_token, "", <<>>, <<>>) IN
    /\ inflight[w].pc = "idle"
    /\ Returns(w, IF RefreshToken_ok(refresh_token)
                  THEN [Req(r) EXCEPT !.status = 200, !.access = TRUE]
                  ELSE [Req(r) EXCEPT !.status = 401, !.detail = "TokenError"])
    /\ UNCHANGED <<accountVars, messageVars>>

\* PasswordChangeView.post: the permission check and
\* serializer.is_valid(raise_exception=True)
PasswordChangeView_post(w, caller, current_password, new_password) ==
    LET r == Request("ChangePassword", caller, "", 0, new_password, <<>>, <<>>) IN
    /\ inflight[w].pc = "idle"
    /\ IF ~is_authenticated(caller)
       THEN Returns(w, [Req(r) EXCEPT !.status = 401,
                          !.detail = "Authentication credentials were not provided."])
       ELSE IF PasswordChangeSerializer_validate(caller, current_password) # ""
       THEN Returns(w, [Req(r) EXCEPT !.status = 400,
                          !.detail = PasswordChangeSerializer_validate(caller,
                                                                     current_password)])
       ELSE Takes(w, r, "save")
    /\ UNCHANGED <<accountVars, messageVars>>

\* PasswordChangeView.post: serializer.save() and the 200 response
PasswordChangeView_save(w) ==
    LET r == inflight[w] IN
    /\ r.op = "ChangePassword"
    /\ r.pc = "save"
    /\ users' = PasswordChangeSerializer_save(r.caller, r.password)
    /\ Returns(w, [Req(r) EXCEPT !.status = 200,
                     !.detail = "Password changed successfully."])
    /\ UNCHANGED <<otps, issued, blacklist, retired, messageVars>>

\* PasswordResetConfirmView.post: the permission check and
\* serializer.is_valid(raise_exception=True), the read of the user
ResetConfirm_is_valid(w, caller, email, otp, new_password) ==
    LET r == Request("ConfirmPasswordReset", caller, email, otp, new_password,
                     <<>>, <<>>)
        err == ResetPasswordWithOtpSerializer_validate_user(email)
    IN
    /\ inflight[w].pc = "idle"
    /\ IF is_authenticated(caller)
       THEN Returns(w, [Req(r) EXCEPT !.status = 403, !.detail = "IsUnauthenticated"])
       ELSE IF err # ""
       THEN Returns(w, [Req(r) EXCEPT !.status = 400, !.detail = err])
       ELSE Takes(w, r, "otp")
    /\ UNCHANGED <<accountVars, messageVars>>

\* PasswordResetConfirmView.post: serializer.is_valid(raise_exception=True),
\* the read of the user's OTP with the code and the check of its validity
\* window
ResetConfirm_validate(w) ==
    LET r == inflight[w]
        err == ResetPasswordWithOtpSerializer_validate_otp(r.email, r.otp)
    IN
    /\ r.op = "ConfirmPasswordReset"
    /\ r.pc = "otp"
    /\ IF err = "MultipleObjectsReturned"
       THEN Returns(w, [Req(r) EXCEPT !.status = 500, !.detail = err])
       ELSE IF err # ""
       THEN Returns(w, [Req(r) EXCEPT !.status = 400, !.detail = err,
                          !.next_action = IF err = "OTP has expired."
                                          THEN "request_new_otp" ELSE ""])
       ELSE Proceeds(w, "save")
    /\ UNCHANGED <<accountVars, messageVars>>

\* PasswordResetConfirmView.post: serializer.save() sets the new password
ResetConfirm_save(w) ==
    LET r == inflight[w] IN
    /\ r.op = "ConfirmPasswordReset"
    /\ r.pc = "save"
    /\ users' = ResetPasswordWithOtpSerializer_save(r.email, r.password)
    /\ Proceeds(w, "get")
    /\ UNCHANGED <<otps, issued, blacklist, retired, messageVars>>

\* PasswordResetConfirmView.post: user = User.objects.get(email=email)
ResetConfirm_get(w) ==
    LET r == inflight[w] IN
    /\ r.op = "ConfirmPasswordReset"
    /\ r.pc = "get"
    /\ IF UserExists(r.email)
       THEN Proceeds(w, "delete")
       ELSE Returns(w, [Req(r) EXCEPT !.status = 500, !.detail = "DoesNotExist"])
    /\ UNCHANGED <<accountVars, messageVars>>

\* PasswordResetConfirmView.post: Otp.objects.filter(user=user).delete(),
\* SendEmail.password_reset_success(request, user) and the 200 response
ResetConfirm_delete(w) ==
    LET r == inflight[w] IN
    /\ r.op = "ConfirmPasswordReset"
    /\ r.pc = "delete"
    /\ otps' = Otp_filter_delete(otps, r.email)
    /\ retired' = retired \cup Deleted(otps, otps')
    /\ Returns(w, [Req(r) EXCEPT !.status = 200, !.mail = "reset_success",
                     !.detail = "Your password has been reset, proceed to login."])
    /\ UNCHANGED <<users, issued, blacklist, messageVars>>

\* a row one clock tick later
Aged(row) ==
    [row EXCEPT !.age = IF row.age < OtpValidTicks THEN row.age + 1 ELSE row.age]

\* time passes: every stored row grows one tick older
Tick ==
    /\ otps' = [s \in {Aged(r) : r \in DOMAIN otps} |->
                  BagCardinality([r \in {x \in DOMAIN otps : Aged(x) = s} |-> otps[r]])]
    /\ UNCHANGED <<inflight, users, issued, blacklist, retired, messageVars, response>>

-----------------------------------------------------------------------------
(* The accounts specifications *)

Callers == Emails \cup {Anonymous}

\* the tables as Init leaves them
EmptyTables ==
    /\ users = [e \in {} |-> [is_email_verified |-> FALSE, password |-> "pw1"]]
    /\ otps = EmptyBag
    /\ issued = <<>>
    /\ blacklist = {}
    /\ retired = {}
    /\ messages = {}
    /\ msg_seq = 0

Init ==
    /\ inflight = NoRequests
    /\ EmptyTables
    /\ response = NoResponse

\* the worker of a server that serves one request at a time: it takes a request
\* when the one before has returned
Serial == {w \in Workers : \A v \in Workers : w <= v}

\* the store operations of a Register request; the code is one of codes
RegisterSteps(w, codes) ==
    \/ Register_save(w)
    \/ \E code \in codes : Register_send_otp(w, code)

\* the store operations of a SendOtp or RequestPasswordResetOtp request; the
\* code is one of codes
IssueOtpSteps(w, codes) ==
    \/ IssueOtp_get(w)
    \/ IssueOtp_delete(w)
    \/ \E code \in codes : IssueOtp_create(w, code)

\* the store operations of a VerifyOtp request
VerifyOtpSteps(w) ==
    \/ VerifyOtp_validate(w)
    \/ VerifyOtp_get(w)
    \/ VerifyOtp_clear(w)
    \/ VerifyOtp_save(w)
    \/ VerifyOtp_delete(w)

\* the store operations of a ConfirmPasswordReset request
ResetConfirmSteps(w) ==
    \/ ResetConfirm_validate(w)
    \/ ResetConfirm_save(w)
    \/ ResetConfirm_get(w)
    \/ ResetConfirm_delete(w)

\* the second store operation of a Login, Logout or ChangePassword request
SessionSteps(w) ==
    \/ LoginView_authenticate(w)
    \/ LogoutView_blacklist(w)
    \/ PasswordChangeView_save(w)

\* Registration, OTP verification and password reset, one request at a time, by
\* clients that hold no access token; the clock runs while a request is served.
\* Passwords play no part in these handlers' decisions: the clients here send
\* one password. SessionSpec and AccountsSpec serve all nine routes.
Next ==
    \/ \E w \in Serial, e \in Emails, f \in Names, l \in Names, p \in {"pw1"} :
          Register_is_valid(w, e, f, l, p)
    \/ \E w \in Serial : RegisterSteps(w, Codes)
    \/ \E w \in Serial, op \in IssueOps, e \in Emails :
          IssueOtp_is_valid(w, op, Anonymous, e)
    \/ \E w \in Serial : IssueOtpSteps(w, Codes)
    \/ \E w \in Serial, e \in Emails, c \in Codes : VerifyOtp_is_valid(w, e, c)
    \/ \E w \in Serial : VerifyOtpSteps(w)
    \/ \E w \in Serial, e \in Emails, c \in Codes, p \in {"pw1"} :
          ResetConfirm_is_valid(w, Anonymous, e, c, p)
    \/ \E w \in Serial : ResetConfirmSteps(w)
    \/ Tick

Spec == Init /\ [][Next]_vars

\* Registration alone, for one email, one request at a time. The first request
\* of a behaviour has any pair of RegisterNames; the requests that follow it (a
\* second attempt, or a request for the email the first one registered) have a
\* pair of Names.
RegisterNext ==
    \/ /\ AllIdle /\ response.op = ""
       /\ \E w \in Serial, e \in {"a@x.com"},
             f \in RegisterNames, l \in RegisterNames, p \in {"pw1"} :
             Register_is_valid(w, e, f, l, p)
    \/ /\ response.op # ""
       /\ \E w \in Serial, e \in {"a@x.com"}, f \in Names, l \in Names, p \in {"pw1"} :
             Register_is_valid(w, e, f, l, p)
    \/ \E w \in Serial : RegisterSteps(w, Codes)

RegisterSpec == Init /\ [][RegisterNext]_vars

\* the code every OTP the ConcSpec and the AccountsSpec server issues carries
OneCode == {c \in Codes : \A d \in Codes : c <= d}

\* the requests served concurrently are about one account: requests about
\* different accounts touch no common row
ConcEmails == {"a@x.com"}

\* All nine routes of accounts/urls.py for one account: every worker serves
\* one request after another, and the workers' store operations interleave in
\* any order, while the clock runs. Every OTP issued carries the same code (a
\* VerifyOtp client presents either code), every client sends the same name
\* and the same password.
ConcNext ==
    \/ \E w \in Workers, e \in ConcEmails, f \in {<<97>>}, l \in {<<97>>}, p \in {"pw1"} :
          Register_is_valid(w, e, f, l, p)
    \/ \E w \in Workers : RegisterSteps(w, OneCode)
    \/ \E w \in Workers, op \in IssueOps, e \in ConcEmails :
          IssueOtp_is_valid(w, op, Anonymous, e)
    \/ \E w \in Workers : IssueOtpSteps(w, OneCode)
    \/ \E w \in Workers, e \in ConcEmails, c \in Codes : VerifyOtp_is_valid(w, e, c)
    \/ \E w \in Workers : VerifyOtpSteps(w)
    \/ \E w \in Workers, e \in ConcEmails, c \in OneCode, p \in {"pw1"} :
          ResetConfirm_is_valid(w, Anonymous, e, c, p)
    \/ \E w \in Workers : ResetConfirmSteps(w)
    \/ \E w \in Workers, e \in ConcEmails, p \in {"pw1"} : LoginView_post(w, e, p)
    \/ \E w \in Workers, u \in ConcEmails, d \in LogoutBodies : LogoutView_post(w, u, d)
    \/ \E w \in Workers, t \in TokenInputs : RefreshTokensView_post(w, t)
    \/ \E w \in Workers, u \in ConcEmails, p \in {"pw1"}, q \in {"pw1"} :
          PasswordChangeView_post(w, u, p, q)
    \/ \E w \in Workers : SessionSteps(w)
    \/ Tick

ConcSpec == Init /\ [][ConcNext]_vars

\* the email registered in SessionSpec: the other email is that of no account
SessionEmails == {"a@x.com"}

\* All nine routes of accounts/urls.py for one account, one request at a
\* time, with either password; the clock runs while a request is served
SessionNext ==
    \/ \E w \in Serial, e \in SessionEmails, f \in {<<97>>}, l \in {<<97>>},
          p \in Passwords :
          Register_is_valid(w, e, f, l, p)
    \/ \E w \in Serial : RegisterSteps(w, Codes)
    \/ \E w \in Serial, op \in IssueOps, u \in Callers, e \in Emails :
          IssueOtp_is_valid(w, op, u, e)
    \/ \E w \in Serial : IssueOtpSteps(w, Codes)
    \/ \E w \in Serial, e \in Emails, c \in Codes : VerifyOtp_is_valid(w, e, c)
    \/ \E w \in Serial : VerifyOtpSteps(w)
    \/ \E w \in Serial, u \in Callers, e \in SessionEmails, c \in Codes,
          p \in Passwords :
          ResetConfirm_is_valid(w, u, e, c, p)
    \/ \E w \in Serial : ResetConfirmSteps(w)
    \/ \E w \in Serial, e \in Emails, p \in Passwords : LoginView_post(w, e, p)
    \/ \E w \in Serial, u \in Callers, d \in LogoutBodies : LogoutView_post(w, u, d)
    \/ \E w \in Serial, t \in TokenInputs : RefreshTokensView_post(w, t)
    \/ \E w \in Serial, u \in Callers, p \in Passwords, q \in Passwords :
          PasswordChangeView_post(w, u, p, q)
    \/ \E w \in Serial : SessionSteps(w)
    \/ Tick

SessionSpec == Init /\ [][SessionNext]_vars

\* All nine routes of accounts/urls.py, one request at a time, for two
\* accounts; the clock runs while a request is served. Every OTP issued carries
\* the same code (a VerifyOtp client presents either code), every client sends
\* the same name and the same password.
AccountsNext ==
    \/ \E w \in Serial, e \in Emails, f \in {<<97>>}, l \in {<<97>>}, p \in {"pw1"} :
          Register_is_valid(w, e, f, l, p)
    \/ \E w \in Serial : RegisterSteps(w, OneCode)
    \/ \E w \in Serial, op \in IssueOps, e \in Emails :
          IssueOtp_is_valid(w, op, Anonymous, e)
    \/ \E w \in Serial : IssueOtpSteps(w, OneCode)
    \/ \E w \in Serial, e \in Emails, c \in Codes : VerifyOtp_is_valid(w, e, c)
    \/ \E w \in Serial : VerifyOtpSteps(w)
    \/ \E w \in Serial, e \in Emails, c \in OneCode, p \in {"pw1"} :
          ResetConfirm_is_valid(w, Anonymous, e, c, p)
    \/ \E w \in Serial : ResetConfirmSteps(w)
    \/ \E w \in Serial, e \in Emails, p \in {"pw1"} : LoginView_post(w, e, p)
    \/ \E w \in Serial, u \in Callers, d \in LogoutBodies : LogoutView_post(w, u, d)
    \/ \E w \in Serial, t \in TokenInputs : RefreshTokensView_post(w, t)
    \/ \E w \in Serial, u \in Callers, p \in {"pw1"}, q \in {"pw1"} :
          PasswordChangeView_post(w, u, p, q)
    \/ \E w \in Serial : SessionSteps(w)
    \/ Tick

AccountsSpec == Init /\ [][AccountsNext]_vars

-----------------------------------------------------------------------------
(* src/apps/messaging/views.py                                              *)
(*                                                                          *)
(* A Message row is [id, sender, recipient, is_read, subject, body]; subject *)
(* and body are sequences of Unicode code points. Every handler is one      *)
(* action per store operation, taken by the worker that serves the request. *)

\* validate_uuid(id)
validate_uuid(id) == id # BadUuid

\* request.user.profile.messages / Message.objects.filter(recipient=profile)
Message_filter_recipient(profile) == {m \in messages : m.recipient = profile}

\* InboxGenericView.list: self.get_queryset().filter(is_read=False).count()
unread_count(profile) ==
    Cardinality({m \in Message_filter_recipient(profile) : ~m.is_read})

\* the lower-case form of a character, for the letters A..Z
lower(c) == IF c \in 65..90 THEN c + 32 ELSE c

\* the icontains lookup of SearchFilter: term occurs in text, whatever the case
icontains(text, term) ==
    \E i \in 0..(Len(text) - Len(term)) :
        \A j \in 1..Len(term) : lower(text[i + j]) = lower(term[j])

\* self.filter_queryset(queryset) with filter_backends = [SearchFilter] and
\* search_fields = ["subject", "body"]: every search term occurs in the subject
\* or in the body; without a term the queryset is returned as it is
SearchFilter_filter(queryset, terms) ==
    {m \in queryset :
        \A k \in DOMAIN terms :
            icontains(m.subject, terms[k]) \/ icontains(m.body, terms[k])}

\* the position of a row's id in creation order
created(m) == CHOOSE i \in DOMAIN MessageIds : MessageIds[i] = m.id

\* the default ordering of Message: newest first
RECURSIVE newest_first(_)
newest_first(rows) ==
    IF rows = {} THEN <<>>
    ELSE LET m == CHOOSE x \in rows : \A y \in rows : created(y) <= created(x)
         IN <<m>> \o newest_first(rows \ {m})

\* paginator.num_pages for a count: an empty list has one, empty, page
num_pages(count) ==
    IF count = 0 THEN 1 ELSE (count + PageSize - 1) \div PageSize

\* queryset[bottom:top] of the page, top clipped to the count the paginator
\* took and to the rows the queryset has when the slice is read
page_slice(rows, page, count) ==
    LET bottom == (page - 1) * PageSize
        top == IF bottom + PageSize < count THEN bottom + PageSize ELSE count
        last == IF top < Len(rows) THEN top ELSE Len(rows)
    IN SubSeq(rows, bottom + 1, last)

\* a worker that serves no messaging request
NoMessage == [id |-> "", sender |-> NoProfile, recipient |-> NoProfile,
              is_read |-> FALSE, subject |-> <<>>, body |-> <<>>]
MsgIdle == [op |-> "", caller |-> NoProfile, arg |-> "", pc |-> "idle",
            row |-> NoMessage, search |-> <<>>, page |-> 0, count |-> 0,
            results |-> <<>>]
MsgAllIdle == inflight = [w \in Workers |-> MsgIdle]

\* the request/response record of the messaging handlers
MsgResp(op, caller, arg, status, detail) ==
    [op |-> op, caller |-> caller, arg |-> arg, status |-> status,
     detail |-> detail, results |-> <<>>, count |-> 0, unread_count |-> 0,
     \* history: whether the message a ViewMessage returned was unread before it
     was_unread |-> FALSE]
MsgNoResponse == MsgResp("", NoProfile, "", 0, "")

\* the response record of a request, before the handler fills it
MsgReq(r) == MsgResp(r.op, r.caller, r.arg, 0, "")

\* the worker goes on serving the request it has just read
MsgTakes(w, r, pc) ==
    /\ inflight' = [inflight EXCEPT ![w] = [r EXCEPT !.pc = pc]]
    /\ response' = MsgNoResponse

\* return Response(...) or raise: the worker is free again
MsgReturns(w, resp) ==
    /\ inflight' = [inflight EXCEPT ![w] = MsgIdle]
    /\ response' = resp

\* InboxGenericView.list: the permission check,
\* self.filter_queryset(self.get_queryset()), which reads no row yet
InboxGenericView_list(w, caller, search, page) ==
    LET r == [MsgIdle EXCEPT !.op = "ListInbox", !.caller = caller,
                             !.search = search, !.page = page]
    IN
    /\ inflight[w].pc = "idle"
    /\ IF caller = NoProfile
       THEN MsgReturns(w, [MsgReq(r) EXCEPT !.status = 401,
                             !.detail = "Authentication credentials were not provided."])
       ELSE MsgTakes(w, r, "count")
    /\ UNCHANGED <<accountVars, messageVars>>

\* InboxGenericView.list: self.paginate_queryset(queryset), the count query of
\* the paginator and the check of the page number
InboxGenericView_count(w) ==
    LET r == inflight[w]
        count == Cardinality(SearchFilter_filter(Message_filter_recipient(r.caller),
                                                 r.search))
    IN
    /\ r.op = "ListInbox"
    /\ r.pc = "count"
    /\ IF r.page > num_pages(count)
       THEN MsgReturns(w, [MsgReq(r) EXCEPT !.status = 404, !.detail = "Invalid page."])
       ELSE /\ inflight' = [inflight EXCEPT ![w].count = count, ![w].pc = "page"]
            /\ UNCHANGED response
    /\ UNCHANGED <<accountVars, messageVars>>

\* InboxGenericView.list: self.paginate_queryset(queryset), the query of the
\* page's rows
InboxGenericView_page(w) ==
    LET r == inflight[w]
        rows == newest_first(SearchFilter_filter(Message_filter_recipient(r.caller),
                                                 r.search))
        page == page_slice(rows, r.page, r.count)
    IN
    /\ r.op = "ListInbox"
    /\ r.pc = "page"
    /\ inflight' = [inflight EXCEPT
                      ![w].results = [i \in DOMAIN page |-> page[i].id],
                      ![w].pc = "unread"]
    /\ UNCHANGED <<response, accountVars, messageVars>>

\* InboxGenericView.list: the unread count query, over the whole inbox, and the
\* paginated response
InboxGenericView_unread(w) ==
    LET r == inflight[w] IN
    /\ r.op = "ListInbox"
    /\ r.pc = "unread"
    /\ MsgReturns(w, [MsgReq(r) EXCEPT !.status = 200, !.results = r.results,
                        !.count = r.count,
                        !.unread_count = unread_count(r.caller)])
    /\ UNCHANGED <<accountVars, messageVars>>

\* ViewMessage.get: the permission check, validate_uuid and
\* request.user.profile.messages.get(id=id); a message that is read is returned
ViewMessage_get(w, caller, id) ==
    LET r == [MsgIdle EXCEPT !.op = "ViewMessage", !.caller = caller, !.arg = id]
        found == {m \in Message_filter_recipient(caller) : m.id = id}
    IN
    /\ inflight[w].pc = "idle"
    /\ IF caller = NoProfile
       THEN MsgReturns(w, [MsgReq(r) EXCEPT !.status = 401,
                             !.detail = "Authentication credentials were not provided."])
       ELSE IF ~validate_uuid(id)
       THEN MsgReturns(w, [MsgReq(r) EXCEPT !.status = 404,
                             !.detail = "Invalid message ID"])
       ELSE IF found = {}
       THEN MsgReturns(w, [MsgReq(r) EXCEPT !.status = 404,
                             !.detail = "Message not found."])
       ELSE \E message \in found :
               IF message.is_read
               THEN MsgReturns(w, [MsgReq(r) EXCEPT !.status = 200,
                                     !.results = <<id>>])
               ELSE MsgTakes(w, [r EXCEPT !.row = message], "save")
    /\ UNCHANGED <<accountVars, messageVars>>

\* ViewMessage.get: message.is_read = True; message.save() writes the row the
\* worker read: it updates the row with that id, and inserts it when the table
\* has no such row any more
ViewMessage_save(w) ==
    LET r == inflight[w] IN
    /\ r.op = "ViewMessage"
    /\ r.pc = "save"
    /\ messages' = {m \in messages : m.id # r.row.id}
                      \cup {[r.row EXCEPT !.is_read = TRUE]}
    /\ MsgReturns(w, [MsgReq(r) EXCEPT !.status = 200, !.results = <<r.arg>>,
                        !.was_unread = TRUE])
    /\ UNCHANGED <<accountVars, msg_seq>>

\* the self-message check left out
is_self_message_unchecked(sender, recipient) == FALSE

\* CreateMessage.post: "You cannot message yourself."
is_self_message(sender, recipient) == sender # NoProfile /\ sender = recipient

\* MessageSerializer.is_valid: the subject and the body are not blank
MessageSerializer_is_valid(data) == data.subject # <<>> /\ data.body # <<>>

\* the workers that have validated a message and not saved it yet
Creating == {v \in Workers : inflight[v].op = "CreateMessage"}

\* CreateMessage.post: validate_uuid, Profile.objects.get, the self-message
\* check and serializer.is_valid(raise_exception=True)
CreateMessage_post(w, caller, profile_id, data) ==
    LET \* request.user.profile if request.user.is_authenticated else None
        sender == caller
        r == [MsgIdle EXCEPT !.op = "CreateMessage", !.caller = caller,
                             !.arg = profile_id,
                             !.row = [NoMessage EXCEPT !.sender = sender,
                                        !.recipient = profile_id,
                                        !.subject = data.subject,
                                        !.body = data.body]]
    IN
    /\ inflight[w].pc = "idle"
    /\ IF ~validate_uuid(profile_id)
       THEN MsgReturns(w, [MsgReq(r) EXCEPT !.status = 404,
                             !.detail = "Invalid profile id"])
       ELSE IF profile_id \notin Profiles
       THEN MsgReturns(w, [MsgReq(r) EXCEPT !.status = 404,
                             !.detail = "Profile not found."])
       ELSE IF is_self_message(sender, profile_id)
       THEN MsgReturns(w, [MsgReq(r) EXCEPT !.status = 400,
                             !.detail = "You cannot message yourself."])
       ELSE IF ~MessageSerializer_is_valid(data)
       THEN MsgReturns(w, [MsgReq(r) EXCEPT !.status = 400,
                             !.detail = "ValidationError"])
       ELSE /\ msg_seq + Cardinality(Creating) < MaxMessages
            /\ MsgTakes(w, r, "save")
    /\ UNCHANGED <<accountVars, messageVars>>

\* CreateMessage.post: serializer.save(sender=sender) and the 201 response
CreateMessage_save(w) ==
    LET r == inflight[w] IN
    /\ r.op = "CreateMessage"
    /\ r.pc = "save"
    /\ messages' = messages \cup {[r.row EXCEPT !.id = MessageIds[msg_seq + 1]]}
    /\ msg_seq' = msg_seq + 1
    /\ MsgReturns(w, [MsgReq(r) EXCEPT !.status = 201,
                        !.results = <<MessageIds[msg_seq + 1]>>])
    /\ UNCHANGED accountVars

\* DeleteMessage.delete: Message.objects.get(id=message_id, recipient=profile)
DeleteMessage_lookup(caller, message_id) ==
    {m \in messages : m.id = message_id /\ m.recipient = caller}

\* DeleteMessage.delete: the permission check, validate_uuid and the lookup
DeleteMessage_get(w, caller, message_id) ==
    LET r == [MsgIdle EXCEPT !.op = "DeleteMessage", !.caller = caller,
                             !.arg = message_id]
        found == DeleteMessage_lookup(caller, message_id)
    IN
    /\ inflight[w].pc = "idle"
    /\ IF caller = NoProfile
       THEN MsgReturns(w, [MsgReq(r) EXCEPT !.status = 401,
                             !.detail = "Authentication credentials were not provided."])
       ELSE IF ~validate_uuid(message_id)
       THEN MsgReturns(w, [MsgReq(r) EXCEPT !.status = 404,
                             !.detail = "Invalid message id"])
       ELSE IF found = {}
       THEN MsgReturns(w, [MsgReq(r) EXCEPT !.status = 404,
                             !.detail = "Message not found."])
       ELSE \E message \in found : MsgTakes(w, [r EXCEPT !.row = message], "delete")
    /\ UNCHANGED <<accountVars, messageVars>>

\* DeleteMessage.delete: message.delete() removes the row with the id of the
\* row the worker read, if the table still has it, and the 204 response
DeleteMessage_delete(w) ==
    LET r == inflight[w] IN
    /\ r.op = "DeleteMessage"
    /\ r.pc = "delete"
    /\ messages' = {m \in messages : m.id # r.row.id}
    /\ MsgReturns(w, [MsgReq(r) EXCEPT !.status = 204,
                        !.detail = "Message deleted successfully."])
    /\ UNCHANGED <<accountVars, msg_seq>>

-----------------------------------------------------------------------------
(* The messaging specifications: the callers are the profiles of logged-in    *)
(* accounts, or a client that is not logged in                                *)

MsgCallers == Profiles \cup {NoProfile}
ProfileIdInputs == Profiles \cup {UnknownId, BadUuid}
MessageIdInputs == {MessageIds[i] : i \in 1..MaxMessages} \cup {BadUuid}
\* the subject and body a client can send: "Hi" / "job", and a blank subject
MsgData == {[subject |-> <<72, 105>>, body |-> <<106, 111, 98>>],
            [subject |-> <<>>, body |-> <<106, 111, 98>>]}
\* the search terms of a list request: none, "JO" and "x"
SearchInputs == {<<>>, <<<<74, 79>>>>, <<<<120>>>>}
\* the page numbers of a list request
PageInputs == 1..MaxMessages

MsgInit ==
    /\ inflight = [w \in Workers |-> MsgIdle]
    /\ EmptyTables
    /\ response = MsgNoResponse

\* the store operations of the messaging requests
MsgSteps(w) ==
    \/ InboxGenericView_count(w)
    \/ InboxGenericView_page(w)
    \/ InboxGenericView_unread(w)
    \/ ViewMessage_save(w)
    \/ CreateMessage_save(w)
    \/ DeleteMessage_delete(w)

\* The messaging routes, one request at a time
MsgNext ==
    \/ \E w \in Serial, u \in MsgCallers, s \in SearchInputs, p \in PageInputs :
          InboxGenericView_list(w, u, s, p)
    \/ \E w \in Serial, u \in MsgCallers, id \in MessageIdInputs :
          ViewMessage_get(w, u, id)
    \/ \E w \in Serial, u \in MsgCallers, id \in ProfileIdInputs, d \in MsgData :
          CreateMessage_post(w, u, id, d)
    \/ \E w \in Serial, u \in MsgCallers, id \in MessageIdInputs :
          DeleteMessage_get(w, u, id)
    \/ \E w \in Serial : MsgSteps(w)

MsgSpec == MsgInit /\ [][MsgNext]_vars

\* the profile whose inbox the concurrent requests are about, and the
\* profiles that write to it
ConcProfiles == {"p1"}
ConcSenders == Profiles \ ConcProfiles

\* Every worker serves one request after another, and the workers' store
\* operations interleave in any order: the senders write to one profile, which
\* lists and views its messages; every profile asks to delete them
MsgConcNext ==
    \/ \E w \in Workers, u \in ConcProfiles, s \in {<<>>}, p \in PageInputs :
          InboxGenericView_list(w, u, s, p)
    \/ \E w \in Workers, u \in ConcProfiles, id \in MessageIdInputs :
          ViewMessage_get(w, u, id)
    \/ \E w \in Workers, u \in ConcSenders, id \in ConcProfiles, d \in MsgData :
          CreateMessage_post(w, u, id, d)
    \/ \E w \in Workers, u \in Profiles, id \in MessageIdInputs :
          DeleteMessage_get(w, u, id)
    \/ \E w \in Workers : MsgSteps(w)

MsgConcSpec == MsgInit /\ [][MsgConcNext]_vars

-----------------------------------------------------------------------------
(* Properties of the OTP lifecycle, checked under Spec *)

\* the number of Otp rows stored for a user
OtpCount(email) == BagCardinality(Otp_filter(otps, email))

\* C1: after any sequence of completed Register, SendOtp,
\* RequestPasswordResetOtp, VerifyOtp and ConfirmPasswordReset requests, every
\* user has at most one stored OTP row, and a completed SendOtp or
\* RequestPasswordResetOtp leaves the user exactly one row (the one it created:
\* the rows the user had before are gone).
C1_AtMostOneOtpPerUser ==
    /\ \A e \in Emails : OtpCount(e) <= 1
    /\ \A e \in Emails :
          /\ response.op \in {"SendOtp", "RequestPasswordResetOtp"}
          /\ response.email = e
          /\ response.status = 200
          => OtpCount(e) = 1

\* C1 witness: a SendOtp for a user who had an OTP completed; the old row is
\* deleted and exactly the new one is stored.
C1_Witness ==
    /\ response.op = "SendOtp"
    /\ response.status = 200
    /\ \E c \in Codes : <<response.email, c>> \in retired
    /\ OtpCount(response.email) = 1

\* C3: VerifyOtp with a code that matches the user's stored OTP whose validity
\* window has elapsed fails with the expiry error and next_action =
\* request_new_otp, and changes neither the User nor the Otp table: the
\* request ends in its validation.
C3_ExpiredOtpRejected ==
    [][\A w \in Serial, e \in Emails, c \in Codes :
          (/\ VerifyOtp_validate(w)
           /\ inflight[w].email = e /\ inflight[w].otp = c
           /\ \E r \in DOMAIN Otp_get(e, c) : ~is_valid(r))
          => /\ response'.status = 400
             /\ response'.detail = "OTP has expired."
             /\ response'.next_action = "request_new_otp"
             /\ response'.mail = ""
             /\ inflight'[w] = Idle
             /\ users' = users
             /\ otps' = otps]_vars

\* C3 witness: an unverified user presented the stored, expired code; the user
\* is still unverified and the expired row is still stored.
C3_Witness ==
    /\ response.op = "VerifyOtp"
    /\ response.detail = "OTP has expired."
    /\ UserExists(response.email)
    /\ ~users[response.email].is_email_verified
    /\ \E r \in DOMAIN otps :
          r.user = response.email /\ r.otp = response.arg /\ ~is_valid(r)

\* C7: a code issued by RequestPasswordResetOtp is never accepted by VerifyOtp
\* to mark the user's email verified: a VerifyOtp that turns is_email_verified
\* from false to true presented a code issued for email verification.
C7_OtpTiedToPurpose ==
    [][\A w \in Serial :
          (/\ VerifyOtp_save(w)
           /\ ~users[inflight[w].email].is_email_verified
           /\ users'[inflight[w].email].is_email_verified)
          => \A r \in DOMAIN Otp_get(inflight[w].email, inflight[w].otp) :
                r.purpose = "verify"]_vars

\* what every VerifyOtp for an already verified user answers: an error (a 400,
\* or a 200 whose body is an error), the user stays verified, and no welcome
\* notification is sent
VerifiedUserGetsError(e) ==
    /\ response'.status = 400 \/ response'.detail = "Email address already verified!"
    /\ response'.detail # "Email verified successfully."
    /\ response'.mail = ""
    /\ users' = users

\* the VerifyOtp request served for a verified user, once it has passed
\* validation: it takes the already-verified branch, which clears the user's
\* OTP rows and answers with the error; the branch that sets the flag and sends
\* the welcome notification is taken for an unverified user only
VerifiedUserBranch(w) ==
    /\ (VerifyOtp_get(w) /\ users[inflight[w].email].is_email_verified)
       => inflight'[w].pc = "clear"
    /\ VerifyOtp_clear(w)
       => /\ VerifiedUserGetsError(inflight[w].email)
          /\ response'.status = 200
          /\ BagCardinality(Otp_filter(otps', inflight[w].email)) = 0
    /\ VerifyOtp_save(w) => ~users[inflight[w].email].is_email_verified

\* C8 as stated: VerifyOtp for an already verified user, whatever code is
\* submitted, reports an error, leaves is_email_verified true, sends no welcome
\* notification, and leaves that user with no stored OTP row.
C8_AlreadyVerifiedClearsOtp ==
    [][\A w \in Serial :
          /\ \A e \in Emails, c \in Codes :
                (/\ VerifyOtp_validate(w)
                 /\ inflight[w].email = e /\ inflight[w].otp = c
                 /\ users[e].is_email_verified)
                => \/ inflight'[w].pc = "get" /\ users' = users
                   \/ /\ inflight'[w] = Idle
                      /\ VerifiedUserGetsError(e)
                      /\ BagCardinality(Otp_filter(otps', e)) = 0
          /\ VerifiedUserBranch(w)]_vars

\* C8 amended: VerifyOtp for an already verified user reports an error, leaves
\* is_email_verified true and sends no welcome notification; the user's OTP
\* rows are cleared when the submitted code matches a stored, unexpired OTP of
\* that user, and otherwise the request fails validation and the Otp table is
\* unchanged.
C8_AlreadyVerifiedAmended ==
    [][\A w \in Serial :
          /\ \A e \in Emails, c \in Codes :
                (/\ VerifyOtp_validate(w)
                 /\ inflight[w].email = e /\ inflight[w].otp = c
                 /\ users[e].is_email_verified)
                => IF \E r \in DOMAIN Otp_get(e, c) : is_valid(r)
                   THEN /\ inflight'[w].pc = "get"
                        /\ users' = users
                        /\ otps' = otps
                   ELSE /\ inflight'[w] = Idle
                        /\ VerifiedUserGetsError(e)
                        /\ response'.status = 400
                        /\ otps' = otps
          /\ VerifiedUserBranch(w)]_vars

\* C8 witness: a verified user, holding an OTP, presented its code: the
\* already-verified error came back and the user's OTP is cleared.
C8_Witness ==
    /\ response.op = "VerifyOtp"
    /\ response.detail = "Email address already verified!"
    /\ users[response.email].is_email_verified
    /\ <<response.email, response.arg>> \in retired
    /\ OtpCount(response.email) = 0

\* C9: once an OTP row is deleted (consumed by a successful VerifyOtp or
\* ConfirmPasswordReset, or superseded by a newer SendOtp or
\* RequestPasswordResetOtp), a VerifyOtp presenting its code, when that code is
\* not the code of the user's current row, fails with the invalid-OTP error
\* and changes nothing.
C9_OldCodeRejected ==
    [][\A w \in Serial, e \in Emails, c \in Codes :
          (/\ VerifyOtp_validate(w)
           /\ inflight[w].email = e /\ inflight[w].otp = c
           /\ <<e, c>> \in retired
           /\ \A r \in DOMAIN Otp_filter(otps, e) : r.otp # c)
          => /\ response'.status = 400
             /\ response'.detail = "Invalid OTP provided."
             /\ inflight'[w] = Idle
             /\ users' = users
             /\ otps' = otps]_vars

\* C9 witness: a user whose first code was superseded by a different one
\* presented the old code and got the invalid-OTP error.
C9_Witness ==
    /\ response.op = "VerifyOtp"
    /\ response.detail = "Invalid OTP provided."
    /\ <<response.email, response.arg>> \in retired
    /\ \E r \in DOMAIN otps : r.user = response.email /\ r.otp # response.arg

-----------------------------------------------------------------------------
(* Properties of the session lifecycle, checked under SessionSpec *)

\* C2: Login for an existing user whose is_email_verified flag is false returns
\* 401 with next_action = send_otp and the user's email, whatever the password,
\* and carries no access or refresh token; every refresh token signed for a
\* user was signed for a verified user.
C2_UnverifiedLoginBlocked ==
    /\ (/\ response.op = "Login"
        /\ UserExists(response.email)
        /\ ~users[response.email].is_email_verified)
       => /\ response.status = 401
          /\ response.next_action = "send_otp"
          /\ response.body_email = response.email
          /\ ~response.access
          /\ response.refresh = 0
    /\ \A t \in 1..Len(issued) :
          issued[t] \in Emails => users[issued[t]].is_email_verified

\* C2 witness: an unverified user logged in with the correct password and was
\* sent to send_otp.
C2_Witness ==
    /\ response.op = "Login"
    /\ UserExists(response.email)
    /\ ~users[response.email].is_email_verified
    /\ users[response.email].password = response.arg
    /\ response.next_action = "send_otp"

\* C6: once Logout has succeeded for a refresh token r (r is blacklisted), every
\* later RefreshToken(r) fails and mints no access token, and r stays
\* blacklisted; a Logout whose refresh input is not a valid refresh token
\* (absent, not a token, or already blacklisted) returns an error and
\* blacklists nothing.
C6_LogoutBlacklists ==
    [][/\ blacklist \subseteq blacklist'
       /\ \A w \in Serial, t \in TokenInputs :
             RefreshTokensView_post(w, t) /\ t \in blacklist
             => response'.status = 401 /\ ~response'.access
       /\ \A w \in Serial, u \in Callers, d \in LogoutBodies :
             (/\ LogoutView_post(w, u, d)
              /\ ~("refresh" \in DOMAIN d /\ RefreshToken_ok(d.refresh)))
             => /\ response'.status >= 400
                /\ inflight'[w] = Idle
                /\ blacklist' = blacklist
       /\ \A w \in Serial :
             LogoutView_blacklist(w)
             => /\ "refresh" \in DOMAIN inflight[w].data
                /\ blacklist' = blacklist \cup {inflight[w].data.refresh}]_vars

-----------------------------------------------------------------------------
(* Properties of messaging: C5 checked under MsgSpec, C4 and C10 under        *)
(* MsgConcSpec                                                                *)

\* the message with an id that a profile received, if any
ReceivedBy(profile, id) == {m \in messages : m.id = id /\ m.recipient = profile}

\* C4: ViewMessage by the recipient is idempotent on the read flag: the view
\* that writes the flag of a message stored unread sets is_read and lowers the
\* recipient's unread count by exactly one, changing no other message; every
\* other view (of a message that is read by then) leaves the Message table, and
\* so the unread count, unchanged.
C4_ViewIdempotent ==
    [][\A w \in Workers :
          /\ \A u \in Profiles, id \in MessageIdInputs :
                ViewMessage_get(w, u, id) => messages' = messages
          /\ \A u \in Profiles, id \in MessageIdInputs :
                (/\ ViewMessage_save(w)
                 /\ inflight[w].caller = u
                 /\ inflight[w].arg = id) =>
                   LET stored == {m \in ReceivedBy(u, id) : ~m.is_read}
                   IN IF stored # {}
                      THEN /\ \A m \in stored :
                                messages' = (messages \ {m})
                                               \cup {[m EXCEPT !.is_read = TRUE]}
                           /\ unread_count(u)' = unread_count(u) - 1
                      ELSE /\ messages' = messages
                           /\ unread_count(u)' = unread_count(u)]_vars

\* C5: a CreateMessage whose authenticated caller is the recipient profile is
\* rejected, and no stored message has its sender equal to its recipient
\* (a message from a client that is not logged in has no sender).
C5_NoSelfMessage ==
    /\ \A m \in messages : m.sender # m.recipient
    /\ (/\ response.op = "CreateMessage"
        /\ response.caller \in Profiles
        /\ response.caller = response.arg)
       => /\ response.status = 400
          /\ response.detail = "You cannot message yourself."

\* C5 witness: a profile that already has mail tried to message itself and was
\* rejected.
C5_Witness ==
    /\ response.op = "CreateMessage"
    /\ response.caller \in Profiles
    /\ response.caller = response.arg
    /\ response.status = 400
    /\ \E m \in messages : m.recipient = response.caller /\ m.sender = NoProfile

\* C10: DeleteMessage removes a message only for its recipient: a logged-in
\* caller who is not the recipient of the message (its sender included) gets
\* not-found and the Message table is unchanged; a delete that is confirmed
\* removes exactly the targeted message.
C10_DeleteOnlyByRecipient ==
    [][\A w \in Workers :
          /\ \A u \in Profiles, id \in MessageIdInputs :
                DeleteMessage_get(w, u, id) =>
                   /\ messages' = messages
                   /\ ReceivedBy(u, id) = {} => response'.status = 404
          /\ \A u \in Profiles, id \in MessageIdInputs :
                (/\ DeleteMessage_delete(w)
                 /\ inflight[w].caller = u
                 /\ inflight[w].arg = id) =>
                   /\ response'.status = 204
                   /\ messages' = messages \ ReceivedBy(u, id)
                   /\ Cardinality(messages') = Cardinality(messages) - 1]_vars

-----------------------------------------------------------------------------
(* Properties of registration, checked under RegisterSpec *)

\* the name has a space character at some position
has_space(name) == \E i \in DOMAIN name : name[i] = 32

\* the name has a space with a character that is not whitespace somewhere
\* before it and somewhere after it
has_internal_space(name) ==
    \E i, j, k \in DOMAIN name :
        /\ i < j /\ j < k
        /\ name[i] \notin Whitespace /\ name[j] = 32 /\ name[k] \notin Whitespace

\* the Register request whose validation this step is: the one the worker goes
\* on serving, or the one just rejected
Registering(w) ==
    IF inflight'[w].op = "Register"
    THEN [email |-> inflight'[w].email, password |-> inflight'[w].password,
          first_name |-> inflight'[w].first_name,
          last_name |-> inflight'[w].last_name]
    ELSE [email |-> response'.email, password |-> response'.arg,
          first_name |-> response'.first_name,
          last_name |-> response'.last_name]

\* this step is the validation of a Register request by the worker
RegisterValidated(w) ==
    /\ inflight[w].pc = "idle"
    /\ inflight'[w].op = "Register" \/ response'.op = "Register"
    /\ Register_is_valid(w, Registering(w).email, Registering(w).first_name,
                         Registering(w).last_name, Registering(w).password)

-----------------------------------------------------------------------------
(* Concurrent OTP-issuing requests, checked under ConcSpec *)

\* the worker returns from an OTP-issuing request for this user, and the last
\* response before its own is the 200 of an OTP-issuing request for the same
\* user: that request returned while the worker was serving this one (a request
\* taken since would have cleared the response), so the two were served
\* concurrently; every worker is free afterwards, so both have completed
BothIssued(w, email) ==
    /\ \E code \in Codes : IssueOtp_create(w, code)
    /\ inflight[w].email = email
    /\ response.op \in IssueOps
    /\ response.email = email
    /\ response.status = 200
    /\ inflight' = NoRequests

\* C12: when two OTP-issuing requests (SendOtp and/or RequestPasswordResetOtp)
\* for the same user interleave at the granularity of their store operations
\* (delete the prior OTPs, then create the new one), the user has exactly one
\* stored OTP once both requests have completed.
C12_ConcurrentIssueLeavesOneOtp ==
    [][\A w \in Workers, e \in Emails :
          BothIssued(w, e) => BagCardinality(Otp_filter(otps', e)) = 1]_vars

-----------------------------------------------------------------------------
(* The is_email_verified flag, checked under AccountsSpec *)

\* the user's flag goes from false to true in this step
BecomesVerified(e) ==
    /\ e \in DOMAIN users
    /\ ~users[e].is_email_verified
    /\ users'[e].is_email_verified

\* C13 as stated: a user's is_email_verified flag goes from false to true only
\* in a VerifyOtp request for that user's own email whose code equals a stored,
\* unexpired OTP of that same user (a code stored for another user never
\* verifies the user); no other operation sets the flag, an account starts
\* with the flag false, and a flag that is true stays true.
C13_VerifiedOnlyByOwnValidOtp ==
    [][/\ \A e \in DOMAIN users :
             /\ e \in DOMAIN users'
             /\ users[e].is_email_verified => users'[e].is_email_verified
             /\ BecomesVerified(e) =>
                   \E w \in Serial :
                      /\ VerifyOtp_save(w)
                      /\ inflight[w].email = e
                      /\ \E r \in DOMAIN otps :
                            r.user = e /\ r.otp = inflight[w].otp /\ is_valid(r)
       /\ \A e \in DOMAIN users' \ DOMAIN users : ~users'[e].is_email_verified
      ]_vars

\* C13 amended: a user's is_email_verified flag goes from false to true only
\* in a VerifyOtp request for that user's own email whose code equals a stored
\* OTP of that same user that was unexpired when the request was validated
\* (the OTP is still stored, and may have expired since, when the flag is
\* written); a request whose code is stored for another user only, or is
\* expired at validation, ends in its validation; no other operation sets the
\* flag, an account starts with the flag false, and a flag that is true stays
\* true.
C13_VerifiedByOwnOtpValidAtCheck ==
    [][/\ \A w \in Serial :
             VerifyOtp_validate(w) =>
                IF \E r \in DOMAIN otps : /\ r.user = inflight[w].email
                                           /\ r.otp = inflight[w].otp
                                           /\ is_valid(r)
                THEN inflight'[w].op = "VerifyOtp" /\ inflight'[w].pc = "get"
                ELSE inflight'[w] = Idle /\ response'.status = 400
       /\ \A w \in Serial :
             (/\ inflight'[w].op = "VerifyOtp" /\ inflight'[w].pc = "get"
              /\ inflight[w].pc # "get")
             => VerifyOtp_validate(w)
       /\ \A e \in DOMAIN users :
             /\ e \in DOMAIN users'
             /\ users[e].is_email_verified => users'[e].is_email_verified
             /\ BecomesVerified(e) =>
                   \E w \in Serial :
                      /\ VerifyOtp_save(w)
                      /\ inflight[w].email = e
                      /\ \E r \in DOMAIN otps :
                            r.user = e /\ r.otp = inflight[w].otp
       /\ \A e \in DOMAIN users' \ DOMAIN users : ~users'[e].is_email_verified
      ]_vars

\* C13 witness: a VerifyOtp request has just verified one user while another,
\* still unverified, user holds a stored OTP
C13_Witness ==
    /\ response.op = "VerifyOtp"
    /\ response.status = 200
    /\ response.detail = "Email verified successfully."
    /\ users[response.email].is_email_verified
    /\ \E b \in DOMAIN users :
          /\ b # response.email
          /\ ~users[b].is_email_verified
          /\ OtpCount(b) = 1

=============================================================================
